---- MODULE Spec2Model ----
(***************************************************************************)
(* Model of the polygon arbitrage core skeleton:                           *)
(*   common/token.rs  Token identity (PartialEq / Hash)                    *)
(*   common/graph.rs  GraphManager (arena + address lookup)                *)
(*   scout/graph.rs   ArbitrageGraph (arena + address lookup + pool edges) *)
(*   common/pool.rs   UniswapV2Pool swap math, PoolVariant dispatch        *)
(*                                                                         *)
(* U256 / u128 / u32 values are kept at their full width: naturals are     *)
(* little-endian sequences of base-256 limbs without trailing zero limbs   *)
(* (<<>> is zero), so equality of values is equality of sequences and      *)
(* wrapping to 256 bits keeps the low 32 limbs.                            *)
(*                                                                         *)
(* `call` is the last operation invoked with its arguments and `ret` its   *)
(* outcome: Ok(value), or a panic (expect on None, todo!(), division by    *)
(* zero, u32 overflow with overflow checks).  Every panic in the source    *)
(* happens before any field is written, so a panicking call leaves the     *)
(* object as it was and a later call (after the unwind) sees that state.   *)
(***************************************************************************)
EXTENDS Integers, Sequences, FiniteSets, TLC

VARIABLES gm, ag, pool, call, ret

vars == <<gm, ag, pool, call, ret>>

(***************************************************************************)
(* Arbitrary-precision naturals                                            *)
(***************************************************************************)
Base == 2 ^ 8

Max(x, y) == IF x >= y THEN x ELSE y
Min(x, y) == IF x <= y THEN x ELSE y

RECURSIVE Norm(_)
Norm(a) == IF a = <<>> THEN <<>>
           ELSE IF a[Len(a)] = 0 THEN Norm(SubSeq(a, 1, Len(a) - 1)) ELSE a

RECURSIVE FromNat(_)
FromNat(n) == IF n = 0 THEN <<>> ELSE <<n % Base>> \o FromNat(n \div Base)

Limb(a, i) == IF i <= Len(a) THEN a[i] ELSE 0

RECURSIVE AddFrom(_, _, _, _)
AddFrom(a, b, i, c) ==
    IF i > Max(Len(a), Len(b)) THEN (IF c = 0 THEN <<>> ELSE <<c>>)
    ELSE LET s == Limb(a, i) + Limb(b, i) + c
         IN <<s % Base>> \o AddFrom(a, b, i + 1, s \div Base)

BigAdd(a, b) == AddFrom(a, b, 1, 0)

RECURSIVE SubFrom(_, _, _, _)
SubFrom(a, b, i, br) ==
    IF i > Len(a) THEN <<>>
    ELSE LET d == Limb(a, i) - Limb(b, i) - br
         IN IF d < 0 THEN <<d + Base>> \o SubFrom(a, b, i + 1, 1)
                     ELSE <<d>> \o SubFrom(a, b, i + 1, 0)

\* a - b for a >= b
BigSub(a, b) == Norm(SubFrom(a, b, 1, 0))

RECURSIVE LtFrom(_, _, _)
LtFrom(a, b, i) == IF i = 0 THEN FALSE
                   ELSE IF a[i] # b[i] THEN a[i] < b[i] ELSE LtFrom(a, b, i - 1)

BigLt(a, b) == IF Len(a) # Len(b) THEN Len(a) < Len(b) ELSE LtFrom(a, b, Len(a))
BigLeq(a, b) == a = b \/ BigLt(a, b)

RECURSIVE MulSmallFrom(_, _, _, _)
MulSmallFrom(a, d, i, c) ==
    IF i > Len(a) THEN (IF c = 0 THEN <<>> ELSE <<c>>)
    ELSE LET s == a[i] * d + c
         IN <<s % Base>> \o MulSmallFrom(a, d, i + 1, s \div Base)

\* a * d for a limb d
MulSmall(a, d) == IF d = 0 THEN <<>> ELSE MulSmallFrom(a, d, 1, 0)

RECURSIVE ColSum(_, _, _, _)
ColSum(a, b, k, i) ==
    IF i > Min(Len(a), k) THEN 0
    ELSE (IF k - i + 1 <= Len(b) THEN a[i] * b[k - i + 1] ELSE 0) + ColSum(a, b, k, i + 1)

RECURSIVE MulFrom(_, _, _, _)
MulFrom(a, b, k, c) ==
    IF k > Len(a) + Len(b) THEN <<>>
    ELSE LET s == ColSum(a, b, k, 1) + c
         IN <<s % Base>> \o MulFrom(a, b, k + 1, s \div Base)

BigMul(a, b) == IF a = <<>> \/ b = <<>> THEN <<>> ELSE Norm(MulFrom(a, b, 1, 0))

\* largest limb q in lo..hi with d * q <= r
RECURSIVE Digit(_, _, _, _)
Digit(r, d, lo, hi) ==
    IF lo = hi THEN lo
    ELSE LET mid == (lo + hi + 1) \div 2
         IN IF BigLeq(MulSmall(d, mid), r) THEN Digit(r, d, mid, hi)
                                           ELSE Digit(r, d, lo, mid - 1)

\* schoolbook long division, most significant limb first; r is the running remainder
RECURSIVE DivFrom(_, _, _, _)
DivFrom(a, d, i, r) ==
    IF i = 0 THEN <<>>
    ELSE LET r1 == Norm(<<a[i]>> \o r)
             q  == Digit(r1, d, 0, Base - 1)
             r2 == BigSub(r1, MulSmall(d, q))
         IN IF Len(r2) >= 0 THEN DivFrom(a, d, i - 1, r2) \o <<q>> ELSE <<>>

\* floor(a / d) for d # 0
BigDiv(a, d) == Norm(DivFrom(a, d, Len(a), <<>>))

RECURSIVE Pow2(_)
Pow2(n) == IF n < 8 THEN FromNat(2 ^ n) ELSE <<0>> \o Pow2(n - 8)

\* value modulo 2^(8 * limbs)
Wrap(a, limbs) == IF Len(a) <= limbs THEN a ELSE Norm(SubSeq(a, 1, limbs))

(***************************************************************************)
(* Fixed-width integer types of the source                                 *)
(***************************************************************************)
U256Limbs == 256 \div 8
U128Limbs == 128 \div 8

U256_MAX == BigSub(Pow2(256), FromNat(1))
U128_MAX == BigSub(Pow2(128), FromNat(1))

\* ruint's `*` and `+` on U256 wrap modulo 2^256
U256Mul(a, b) == Wrap(BigMul(a, b), U256Limbs)
U256Add(a, b) == Wrap(BigAdd(a, b), U256Limbs)

FitsU256(a) == Len(a) <= U256Limbs

(***************************************************************************)
(* Outcomes of a call                                                      *)
(***************************************************************************)
NoCall == [op |-> "none"]
NoRet  == [kind |-> "none"]

Ok(v)      == [kind |-> "Ok", value |-> v]
Panic(msg) == [kind |-> "panic", msg |-> msg]
Err(e)     == [kind |-> "Err", err |-> e]

(***************************************************************************)
(* common/token.rs                                                         *)
(***************************************************************************)
ADDRESS_ZERO == "0x0000000000000000000000000000000000000000"
ADDRESS_WETH == "0xC02aaA39b223FE8D0A0e5C4F27eAD9083C756Cc2"
ADDRESS_USDC == "0xA0b86991c6218b36c1d19D4a2e9Eb0cE3606eB48"

Token_new(address, symbol, decimals) ==
    [address   |-> address,
     symbol    |-> symbol,
     decimals  |-> decimals,
     is_weth   |-> (address = ADDRESS_WETH),
     is_native |-> (address = ADDRESS_ZERO)]

Token_empty == Token_new(ADDRESS_ZERO, "UNK", 18)

Token_eq_symbol(self, other) ==
    self.address = other.address /\ self.symbol = other.symbol

Token_eq(self, other) == self.address = other.address

Token_hash_all(self, state) == state \o <<self.address, self.symbol>>

\* the hasher state is the sequence of values written to it
Token_hash(self, state) == state \o <<self.address>>

(***************************************************************************)
(* utils/models.rs                                                         *)
(***************************************************************************)
TokenNode(address, symbol, decimals) ==
    [address |-> address, symbol |-> symbol, decimals |-> decimals]

PoolEdge(address, fee, zero_for_one) ==
    [address |-> address, fee |-> fee, zero_for_one |-> zero_for_one]

(***************************************************************************)
(* petgraph DiGraph: node and edge arenas, indices are 0-based positions   *)
(***************************************************************************)
DiGraph_new == [nodes |-> <<>>, edges |-> <<>>]

node_count(g) == Len(g.nodes)
edge_count(g) == Len(g.edges)

\* add_node returns the index of the new node: the node count before insertion
add_node(g, weight) == [g EXCEPT !.nodes = Append(@, weight)]

add_edge(g, a, b, weight) ==
    [g EXCEPT !.edges = Append(@, [source |-> a, target |-> b, weight |-> weight])]

node_weight(g, index) == g.nodes[index + 1]

\* HashMap::insert
insert(map, key, value) ==
    [k \in DOMAIN map \cup {key} |-> IF k = key THEN value ELSE map[k]]

EmptyMap == [k \in {} |-> 0]

(***************************************************************************)
(* Inputs                                                                  *)
(***************************************************************************)
MaxEdges == 2

GraphAddresses == {ADDRESS_WETH, ADDRESS_USDC}

Metadata == {<<"WETH", 18>>, <<"USDC", 6>>}

GraphTokens == {Token_new(a, m[1], m[2]) : a \in GraphAddresses, m \in Metadata}

GraphTokenNodes == {TokenNode(a, m[1], m[2]) : a \in GraphAddresses, m \in Metadata}

PoolEdges == {PoolEdge("0xPool1", 3000, TRUE), PoolEdge("0xPool2", 500, TRUE)}

(***************************************************************************)
(* common/graph.rs: GraphManager                                           *)
(***************************************************************************)
GraphManager_new == [graph |-> DiGraph_new, node_map |-> EmptyMap]

add_or_get_token_always_insert(token) ==
    LET index == node_count(gm.graph)
    IN /\ gm' = [graph    |-> add_node(gm.graph, token),
                 node_map |-> insert(gm.node_map, token.address, index)]
       /\ ret' = Ok(index)
       /\ call' = [op |-> "add_or_get_token", token |-> token]
       /\ UNCHANGED <<ag, pool>>

add_or_get_token(token) ==
    /\ IF token.address \in DOMAIN gm.node_map
       THEN /\ ret' = Ok(gm.node_map[token.address])
            /\ gm' = gm
       ELSE LET addr  == token.address
                index == node_count(gm.graph)
            IN /\ gm' = [graph    |-> add_node(gm.graph, token),
                         node_map |-> insert(gm.node_map, addr, index)]
               /\ ret' = Ok(index)
    /\ call' = [op |-> "add_or_get_token", token |-> token]
    /\ UNCHANGED <<ag, pool>>

(***************************************************************************)
(* scout/graph.rs: ArbitrageGraph                                          *)
(***************************************************************************)
ArbitrageGraph_new == [graph |-> DiGraph_new, token_to_node |-> EmptyMap]

add_token_no_lookup_entry(token) ==
    /\ IF token.address \in DOMAIN ag.token_to_node
       THEN /\ ret' = Ok(ag.token_to_node[token.address])
            /\ ag' = ag
       ELSE /\ ag' = [ag EXCEPT !.graph = add_node(ag.graph, token)]
            /\ ret' = Ok(node_count(ag.graph))
    /\ call' = [op |-> "add_token", token |-> token]
    /\ UNCHANGED <<gm, pool>>

\* entry(address).or_insert_with(|| graph.add_node(token))
add_token(token) ==
    /\ IF token.address \in DOMAIN ag.token_to_node
       THEN /\ ret' = Ok(ag.token_to_node[token.address])
            /\ ag' = ag
       ELSE LET index == node_count(ag.graph)
            IN /\ ag' = [graph         |-> add_node(ag.graph, token),
                         token_to_node |-> insert(ag.token_to_node, token.address, index)]
               /\ ret' = Ok(index)
    /\ call' = [op |-> "add_token", token |-> token]
    /\ UNCHANGED <<gm, pool>>

add_pool(p, token_in, token_out) ==
    /\ call' = [op |-> "add_pool", pool |-> p, token_in |-> token_in, token_out |-> token_out]
    /\ IF token_in \notin DOMAIN ag.token_to_node
       THEN /\ ret' = Panic("Node in exists")
            /\ ag' = ag
       ELSE IF token_out \notin DOMAIN ag.token_to_node
       THEN /\ ret' = Panic("Node out exists")
            /\ ag' = ag
       ELSE LET u == ag.token_to_node[token_in]
                v == ag.token_to_node[token_out]
            IN /\ edge_count(ag.graph) < MaxEdges
               /\ ag' = [ag EXCEPT !.graph = add_edge(ag.graph, u, v, p)]
               /\ ret' = Ok("unit")
    /\ UNCHANGED <<gm, pool>>

(***************************************************************************)
(* common/pool.rs: UniswapV2Pool                                           *)
(***************************************************************************)
FEE_DENOMINATOR == 10000

UniswapV2Pool(reserve0, reserve1, fee_bps) ==
    [variant  |-> "V2",
     address  |-> "0xPair",
     token0   |-> ADDRESS_WETH,
     token1   |-> ADDRESS_USDC,
     reserve0 |-> reserve0,
     reserve1 |-> reserve1,
     fee_bps  |-> fee_bps]

\* `10000 - self.fee_bps` on u32: with overflow checks the subtraction panics,
\* without them it wraps modulo 2^32; either build can be produced.
U32Sub(a, b) ==
    IF b <= a THEN {Ok(FromNat(a - b))}
    ELSE {Panic("attempt to subtract with overflow"),
          Ok(BigSub(Pow2(32), FromNat(b - a)))}

ReservesIgnoringDirection(self, zero_for_one) == <<self.reserve0, self.reserve1>>

\* (r_in, r_out)
Reserves(self, zero_for_one) ==
    IF zero_for_one THEN <<self.reserve0, self.reserve1>>
                    ELSE <<self.reserve1, self.reserve0>>

DenominatorWithoutInput(r_in, amount_in_with_fee) ==
    U256Mul(r_in, FromNat(FEE_DENOMINATOR))

Denominator(r_in, amount_in_with_fee) ==
    U256Add(U256Mul(r_in, FromNat(FEE_DENOMINATOR)), amount_in_with_fee)

\* ruint's `/` panics on a zero divisor
U256Div(numerator, denominator) ==
    IF denominator = <<>> THEN Panic("Division by zero")
    ELSE Ok(BigDiv(numerator, denominator))

\* the set of outcomes the call can produce
UniswapV2Pool_get_amount_out(self, amount_in, zero_for_one) ==
    LET r     == Reserves(self, zero_for_one)
        r_in  == r[1]
        r_out == r[2]
        Finish(factor) ==
            IF factor.kind = "panic" THEN factor
            ELSE LET amount_in_with_fee == U256Mul(amount_in, factor.value)
                     numerator          == U256Mul(amount_in_with_fee, r_out)
                     denominator        == Denominator(r_in, amount_in_with_fee)
                 IN U256Div(numerator, denominator)
    IN {Finish(factor) : factor \in U32Sub(FEE_DENOMINATOR, self.fee_bps)}

UniswapV2Pool_update_from_log(self, log) ==
    Panic("not yet implemented: Parse Sync event")

UniswapV2Pool_get_log_weight(self, zero_for_one) ==
    Panic("not yet implemented: -log(price)")

(***************************************************************************)
(* common/pool.rs: UniswapV3Pool, UniswapV4Pool                            *)
(***************************************************************************)
UniswapV3Pool ==
    [variant |-> "V3", address |-> "0xV3Pool",
     token0 |-> ADDRESS_WETH, token1 |-> ADDRESS_USDC]

UniswapV4Pool ==
    [variant |-> "V4", address |-> "0xHooks",
     token0 |-> ADDRESS_WETH, token1 |-> ADDRESS_USDC]

UniswapV3Pool_get_amount_out(self, amount_in, zero_for_one) ==
    {Panic("not yet implemented: Implement V3 SwapMath")}

UniswapV4Pool_get_amount_out(self, amount_in, zero_for_one) ==
    {Panic("not yet implemented")}

(***************************************************************************)
(* common/pool.rs: PoolVariant dispatch                                    *)
(***************************************************************************)
PoolVariant_get_amount_out(self, amount_in, zero_for_one) ==
    CASE self.variant = "V2" -> UniswapV2Pool_get_amount_out(self, amount_in, zero_for_one)
      [] self.variant = "V3" -> UniswapV3Pool_get_amount_out(self, amount_in, zero_for_one)
      [] self.variant = "V4" -> UniswapV4Pool_get_amount_out(self, amount_in, zero_for_one)

PoolVariant_update_from_log(self, log) ==
    CASE self.variant = "V2" -> UniswapV2Pool_update_from_log(self, log)
      [] self.variant = "V3" -> Panic("not yet implemented: Parse Swap/Mint/Burn")
      [] self.variant = "V4" -> Panic("not yet implemented")

PoolVariant_get_log_weight(self, zero_for_one) ==
    CASE self.variant = "V2" -> UniswapV2Pool_get_log_weight(self, zero_for_one)
      [] self.variant = "V3" -> Panic("not yet implemented")
      [] self.variant = "V4" -> Panic("not yet implemented")

\* GraphEdge::weight
GraphEdge_weight(edge) == PoolVariant_get_log_weight(edge.pool, edge.zero_for_one)

(***************************************************************************)
(* Pool inputs                                                             *)
(***************************************************************************)
E6  == FromNat(1000000)
E18 == BigMul(BigMul(E6, E6), E6)

Reserve0Values == {<<>>, FromNat(1), BigMul(E6, E18), U128_MAX}
Reserve1Values == {<<>>, BigMul(FromNat(2000000), E6), U128_MAX}
FeeValues      == {30, FEE_DENOMINATOR, FEE_DENOMINATOR + 1}

AmountValues == {<<>>, FromNat(1), BigMul(FromNat(10000), E18), U256_MAX}

Pools ==
    {UniswapV2Pool(r0, r1, f) : r0 \in Reserve0Values, r1 \in Reserve1Values, f \in FeeValues}
        \cup {UniswapV3Pool, UniswapV4Pool}

\* decoded Sync events handed to update_from_log
Logs == {[ordering_key |-> k, reserve0 |-> FromNat(r), reserve1 |-> FromNat(r)] :
            k \in {1, 2}, r \in {5, 7}}

(***************************************************************************)
(* Pool operations                                                         *)
(***************************************************************************)
get_amount_out(amount_in, zero_for_one) ==
    /\ call' = [op |-> "get_amount_out", amount_in |-> amount_in, zero_for_one |-> zero_for_one]
    /\ ret' \in PoolVariant_get_amount_out(pool, amount_in, zero_for_one)
    /\ UNCHANGED <<gm, ag, pool>>

update_from_log(log) ==
    /\ call' = [op |-> "update_from_log", log |-> log]
    /\ ret' = PoolVariant_update_from_log(pool, log)
    /\ UNCHANGED <<gm, ag, pool>>

weight(zero_for_one) ==
    /\ call' = [op |-> "weight", zero_for_one |-> zero_for_one]
    /\ ret' = GraphEdge_weight([pool |-> pool, zero_for_one |-> zero_for_one])
    /\ UNCHANGED <<gm, ag, pool>>

(***************************************************************************)
(* Graph specification                                                     *)
(***************************************************************************)
DefaultPool == UniswapV2Pool(BigMul(E6, E18), BigMul(FromNat(2000000), E6), 30)

Init ==
    /\ gm = GraphManager_new
    /\ ag = ArbitrageGraph_new
    /\ pool = DefaultPool
    /\ call = NoCall
    /\ ret = NoRet

Next ==
    \/ \E token \in GraphTokens : add_or_get_token(token)
    \/ \E token \in GraphTokenNodes : add_token(token)
    \/ \E p \in PoolEdges, token_in \in GraphAddresses, token_out \in GraphAddresses :
          add_pool(p, token_in, token_out)

Spec == Init /\ [][Next]_vars

(***************************************************************************)
(* Pool specification                                                      *)
(***************************************************************************)
PoolInit ==
    /\ gm = GraphManager_new
    /\ ag = ArbitrageGraph_new
    /\ pool \in Pools
    /\ call = NoCall
    /\ ret = NoRet

PoolNext ==
    \/ \E amount_in \in AmountValues, zero_for_one \in BOOLEAN :
          get_amount_out(amount_in, zero_for_one)
    \/ \E log \in Logs : update_from_log(log)
    \/ \E zero_for_one \in BOOLEAN : weight(zero_for_one)

PoolSpec == PoolInit /\ [][PoolNext]_vars

(***************************************************************************)
(* Token specification: eq and hash applied to pairs of Token values       *)
(***************************************************************************)
Tokens ==
    [address   : {ADDRESS_ZERO, ADDRESS_WETH, ADDRESS_USDC},
     symbol    : {"WETH", "UNK"},
     decimals  : {18, 6},
     is_weth   : BOOLEAN,
     is_native : BOOLEAN]

HasherStates == {<<>>, <<"seed">>}

eq(self, other) ==
    /\ call' = [op |-> "eq", self |-> self, other |-> other]
    /\ ret' = Ok(Token_eq(self, other))
    /\ UNCHANGED <<gm, ag, pool>>

hash(self, state) ==
    /\ call' = [op |-> "hash", self |-> self, state |-> state]
    /\ ret' = Ok(Token_hash(self, state))
    /\ UNCHANGED <<gm, ag, pool>>

TokenNext ==
    \/ \E self \in Tokens, other \in Tokens : eq(self, other)
    \/ \E self \in Tokens \cup {Token_empty}, state \in HasherStates : hash(self, state)

TokenSpec == Init /\ [][TokenNext]_vars

(***************************************************************************)
(* Properties: graph                                                       *)
(***************************************************************************)
IsPrefix(s, t) == Len(s) <= Len(t) /\ SubSeq(t, 1, Len(s)) = s

\* what one add-or-get call must do to a graph (g, m) -> (g2, m2) for token t
AddOrGetPost(g, m, g2, m2, t, r) ==
    IF t.address \in DOMAIN m
    THEN /\ r = Ok(m[t.address])
         /\ g2 = g
         /\ m2 = m
    ELSE /\ r.kind = "Ok"
         /\ r.value = node_count(g)
         /\ node_count(g2) = node_count(g) + 1
         /\ IsPrefix(g.nodes, g2.nodes)
         /\ g2.nodes[r.value + 1] = t
         /\ g2.edges = g.edges
         /\ DOMAIN m2 = DOMAIN m \cup {t.address}
         /\ m2[t.address] = r.value
         /\ \A a \in DOMAIN m : m2[a] = m[a]

C1_Step ==
    /\ call'.op = "add_or_get_token" =>
          AddOrGetPost(gm.graph, gm.node_map, gm'.graph, gm'.node_map, call'.token, ret')
    /\ call'.op = "add_token" =>
          AddOrGetPost(ag.graph, ag.token_to_node, ag'.graph, ag'.token_to_node, call'.token, ret')
    /\ (call.op \in {"add_or_get_token", "add_token"} /\ call'.op = call.op
            /\ call'.token = call.token) => ret' = ret

\* C1: add_or_get_token / add_token is idempotent: a token whose address is
\* already in the lookup gets the index stored for that address and the graph,
\* the lookup and the stored metadata stay as they are, even when symbol or
\* decimals differ; otherwise exactly one node is inserted and its index
\* returned; the same call twice in a row returns the same index.
C1_AddOrGetTokenIdempotent == [][C1_Step]_vars

\* an add_or_get_token call for a present address whose stored metadata differs
C1_Witness ==
    /\ call.op = "add_or_get_token"
    /\ ret.kind = "Ok"
    /\ node_count(gm.graph) = 2
    /\ node_weight(gm.graph, ret.value).address = call.token.address
    /\ node_weight(gm.graph, ret.value).symbol # call.token.symbol
    /\ node_weight(gm.graph, ret.value).decimals # call.token.decimals

LookupConsistent(g, m) ==
    /\ Cardinality(DOMAIN m) = node_count(g)
    /\ \A a \in DOMAIN m : /\ m[a] \in 0 .. node_count(g) - 1
                          /\ node_weight(g, m[a]).address = a
    /\ \A i \in 1 .. node_count(g) : g.nodes[i].address \in DOMAIN m
    /\ \A i, j \in 1 .. node_count(g) :
          g.nodes[i].address = g.nodes[j].address => i = j

\* C2: after any sequence of token and pool insertions the address lookup and
\* the node arena agree: one entry per node, every entry points at a node that
\* stores that address, and no two nodes carry the same address.
C2_LookupConsistentWithArena ==
    /\ LookupConsistent(gm.graph, gm.node_map)
    /\ LookupConsistent(ag.graph, ag.token_to_node)

\* both graphs hold two nodes, pools were inserted, and the last call was a
\* repeated add_token of a present address
C2_Witness ==
    /\ node_count(gm.graph) = 2
    /\ node_count(ag.graph) = 2
    /\ edge_count(ag.graph) = MaxEdges
    /\ call.op = "add_token"
    /\ node_weight(ag.graph, ret.value) # call.token

\* C3: inserting a pool's edges when one of the two token nodes is absent
\* fails with an InvalidGraphReference error value, not an abort.
C3_MissingNodeIsErrorResult ==
    (/\ call.op = "add_pool"
     /\ \/ call.token_in \notin DOMAIN ag.token_to_node
        \/ call.token_out \notin DOMAIN ag.token_to_node)
        => ret = Err("InvalidGraphReference")

C4_Step ==
    (call'.op = "add_pool" /\ ret'.kind = "Ok") =>
        LET a == ag.token_to_node[call'.token_in]
            b == ag.token_to_node[call'.token_out]
        IN /\ node_count(ag'.graph) = node_count(ag.graph)
           /\ ag'.graph.edges = ag.graph.edges \o
                 << [source |-> a, target |-> b, weight |-> call'.pool],
                    [source |-> b, target |-> a, weight |-> call'.pool] >>

\* C4: each successful pool insertion between two present token nodes a and b
\* appends exactly two directed edges, a->b and b->a, backed by that pool,
\* without merging with the edges already there.
C4_TwoEdgesPerPool == [][C4_Step]_vars

(***************************************************************************)
(* Properties: constant-product pool                                       *)
(***************************************************************************)
IsV2Quote == call.op = "get_amount_out" /\ pool.variant = "V2"

QuoteIn  == IF call.zero_for_one THEN pool.reserve0 ELSE pool.reserve1
QuoteOut == IF call.zero_for_one THEN pool.reserve1 ELSE pool.reserve0

\* exact (unbounded) values of the formula's intermediates, for fee_bps <= 10000
ExactInputWithFee == BigMul(call.amount_in, FromNat(10000 - pool.fee_bps))
ExactNumerator    == BigMul(ExactInputWithFee, QuoteOut)
ExactDenominator  == BigAdd(BigMul(QuoteIn, FromNat(10000)), ExactInputWithFee)

NoIntermediateOverflow ==
    /\ FitsU256(ExactInputWithFee)
    /\ FitsU256(ExactNumerator)
    /\ FitsU256(ExactDenominator)

\* q = floor(n / d)
IsFloor(q, n, d) ==
    /\ BigLeq(BigMul(q, d), n)
    /\ BigLt(n, BigMul(BigAdd(q, FromNat(1)), d))

C6_ZeroDenominatorIsErrorResult ==
    (IsV2Quote /\ pool.fee_bps <= 10000 /\ ExactDenominator = <<>>)
        => ret = Err("InsufficientLiquidity")

C7_Step ==
    (/\ call.op = "update_from_log"
     /\ call'.op = "update_from_log"
     /\ call'.log.ordering_key <= call.log.ordering_key)
        => /\ ret' = Err("StateDesyncError")
           /\ pool' = pool

\* C7: an event whose ordering key is lower than or equal to the key of the
\* event delivered before it is rejected with StateDesyncError and the pool
\* is not mutated.
C7_StaleEventRejected == [][C7_Step]_vars

\* C9: when 10000 - fee_bps underflows or an intermediate product or sum
\* exceeds 256 bits, the call is aborted with ArithmeticOverflow.
C9_OverflowIsErrorResult ==
    (IsV2Quote /\ (pool.fee_bps > 10000 \/ ~NoIntermediateOverflow))
        => ret = Err("ArithmeticOverflow")

\* reserve_in > 0, fee_bps <= 10000, no intermediate overflow
C10_Pre(c) ==
    /\ c.op = "get_amount_out"
    /\ pool.variant = "V2"
    /\ pool.fee_bps <= 10000
    /\ (IF c.zero_for_one THEN pool.reserve0 ELSE pool.reserve1) # <<>>
    /\ LET r_in  == IF c.zero_for_one THEN pool.reserve0 ELSE pool.reserve1
           r_out == IF c.zero_for_one THEN pool.reserve1 ELSE pool.reserve0
           awf   == BigMul(c.amount_in, FromNat(10000 - pool.fee_bps))
       IN /\ FitsU256(awf)
          /\ FitsU256(BigMul(awf, r_out))
          /\ FitsU256(BigAdd(BigMul(r_in, FromNat(10000)), awf))

C10_Monotone ==
    (/\ C10_Pre(call)
     /\ C10_Pre(call')
     /\ call'.zero_for_one = call.zero_for_one
     /\ BigLeq(call.amount_in, call'.amount_in))
        => BigLeq(ret.value, ret'.value)

C10_ReadOnly == call'.op = "get_amount_out" => pool' = pool

\* C10 as claimed: the result is strictly below reserve_out, 0 for a zero
\* input, non-decreasing in amount_in, and the call leaves the pool as it is.
C10_StrictlyBelowReserveOut ==
    /\ [](C10_Pre(call) => /\ ret.kind = "Ok"
                           /\ BigLt(ret.value, QuoteOut)
                           /\ (call.amount_in = <<>> => ret.value = <<>>))
    /\ [][C10_Monotone /\ C10_ReadOnly]_vars

\* C10 amended: strictly below reserve_out when reserve_out > 0, and 0 when
\* reserve_out = 0; the rest as claimed.
C10_BelowReserveOut ==
    /\ [](C10_Pre(call) => /\ ret.kind = "Ok"
                           /\ (QuoteOut # <<>> => BigLt(ret.value, QuoteOut))
                           /\ (QuoteOut = <<>> => ret.value = <<>>)
                           /\ (call.amount_in = <<>> => ret.value = <<>>))
    /\ [][C10_Monotone /\ C10_ReadOnly]_vars

\* a non-zero quote token1 -> token0 within range
C10_Witness ==
    /\ C10_Pre(call)
    /\ ~call.zero_for_one
    /\ call.amount_in # <<>>
    /\ ret.kind = "Ok"
    /\ ret.value # <<>>
    /\ BigLt(ret.value, pool.reserve0)

(***************************************************************************)
(* Properties: token identity                                              *)
(***************************************************************************)
C8_Eq ==
    call.op = "eq" => ret = Ok(call.self.address = call.other.address)

C8_HashStep ==
    (/\ call.op = "hash"
     /\ call'.op = "hash"
     /\ call'.state = call.state
     /\ call'.self.address = call.self.address) => ret' = ret

\* C8: two tokens compare equal exactly when their addresses are equal,
\* whatever their symbol, decimals and flags, and tokens with equal addresses
\* feed the same bytes to the same hasher.
C8_IdentityByAddress == []C8_Eq /\ [][C8_HashStep]_vars

\* equal addresses, every other field different, compared equal
C8_Witness ==
    /\ call.op = "eq"
    /\ call.self.address = call.other.address
    /\ call.self.symbol # call.other.symbol
    /\ call.self.decimals # call.other.decimals
    /\ call.self.is_weth # call.other.is_weth
    /\ call.self.is_native # call.other.is_native
    /\ ret = Ok(TRUE)

====
